---- MODULE Spec2Model ----
(***************************************************************************)
(* Failover-aware provider selection of claude-code-router:                *)
(*   FailoverManager  (getNextProvider, recordFailure, recordSuccess,      *)
(*                     resetFailoverConfig, getAvailableProviders,         *)
(*                     isRetryableError)                                   *)
(*   router           (getModelFromConfig, getUseModel, router)            *)
(* The state is the process-wide failoverConfigs map and the wall clock.   *)
(* Every call is one atomic step; lastCall keeps the call's outcome, hist   *)
(* keeps the history of one scope, used only to state properties.          *)
(***************************************************************************)
EXTENDS Integers, Sequences, FiniteSets, TLC

VARIABLES
    failoverConfigs,   \* Map<string, FailoverConfig>: a function whose DOMAIN is the set of keys
    now,               \* Date.now(), in milliseconds
    lastCall,          \* the last call made: which, the path it took, what it returned
    hist,              \* history of one scope key (not program state)
    inflight           \* the requests in flight: each one's position and the provider it
                       \* was given, the results of the successive selections, and the
                       \* providers whose requests always fail

vars == <<failoverConfigs, now, lastCall, hist, inflight>>

(***************************************************************************)
(* Bounds of the model.                                                    *)
(***************************************************************************)
StartNow == 100000
TickMs == 30001
MaxTicks == 1
MaxFailureCount == 3
MaxCalls == 4
MaxStreak == 4
MaxRequests == 4

(***************************************************************************)
(* Program constants.                                                      *)
(***************************************************************************)
FAILURE_COOLDOWN_MS == 30000
MAX_FAILURES == 3

(***************************************************************************)
(* Inputs.  An optional argument is a sequence: <<>> when it is not given  *)
(* (undefined), <<v>> when it is v.                                        *)
(***************************************************************************)
SessionIds == {<<>>, <<"global">>}

ProviderNames == {"a", "b", "c"}

ProviderLists == {<<>>, <<"a">>, <<"a", "b">>}

\* Two lists that differ, passed for one scope (SpecLists).
MixedLists == {<<"a", "b", "c">>, <<"c", "b">>}

\* Strings that are searched or case-folded are sequences of characters.
MsgTimeoutLower == <<"t","i","m","e","o","u","t">>
MsgTimeoutUpper == <<"T","i","m","e","o","u","t">>
MsgRateLimit == <<"R","a","t","e"," ","l","i","m","i","t">>
MsgNotFound == <<"n","o","t"," ","f","o","u","n","d">>

\* An error object: status, response.status (0 when absent), code ("" when
\* absent), message (<<>> when absent).
Err(status, responseStatus, code, message) ==
    [status |-> status, responseStatus |-> responseStatus, code |-> code, message |-> message]

Errors ==
    { <<>>,
      <<Err(404, 0, "", MsgNotFound)>>,
      <<Err(503, 0, "", <<>>)>> }

(***************************************************************************)
(* String helpers: String.prototype.toLowerCase and .includes.             *)
(***************************************************************************)
LowerChar(ch) ==
    CASE ch = "T" -> "t"
      [] ch = "R" -> "r"
      [] ch = "L" -> "l"
      [] ch = "M" -> "m"
      [] ch = "O" -> "o"
      [] OTHER -> ch

ToLowerCase(s) == [i \in 1..Len(s) |-> LowerChar(s[i])]

Includes(s, sub) ==
    \E i \in 0..(Len(s) - Len(sub)) : SubSeq(s, i + 1, i + Len(sub)) = sub

StartsWith(s, prefix) == Len(s) >= Len(prefix) /\ SubSeq(s, 1, Len(prefix)) = prefix

\* Index of the first occurrence of the one-character (one-token) string
\* sep in s, 0 when there is none.
IndexOf(s, sep) ==
    IF \E i \in 1..Len(s) : s[i] = sep
    THEN CHOOSE i \in 1..Len(s) : s[i] = sep /\ \A j \in 1..(i - 1) : s[j] # sep
    ELSE 0

\* String.prototype.split(sep): the sequence of the parts of s.
RECURSIVE Split(_, _)
Split(s, sep) ==
    LET i == IndexOf(s, sep) IN
    IF i = 0 THEN <<s>>
    ELSE <<SubSeq(s, 1, i - 1)>> \o Split(SubSeq(s, i + 1, Len(s)), sep)

(***************************************************************************)
(* Map helpers.                                                            *)
(***************************************************************************)
MapSet(m, key, value) == [k \in DOMAIN m \cup {key} |-> IF k = key THEN value ELSE m[k]]

MapDelete(m, key) == [k \in DOMAIN m \ {key} |-> m[k]]

(***************************************************************************)
(* FailoverManager.                                                        *)
(***************************************************************************)
\* const configKey = sessionId ? `session_${sessionId}` : 'global';
\* undefined and the empty string are falsy.
ConfigKey(sessionId) ==
    IF sessionId = <<>> \/ sessionId[1] = "" THEN "global" ELSE "session_" \o sessionId[1]

NewConfig(providers) ==
    [providers |-> providers, currentIndex |-> 0, lastFailureTime |-> 0, failureCount |-> 0]

\* Line 210, providers: [...providers].  The record's array after the caller
\* has written to the array it passed to the creating call, which now reads
\* callerProviders.
\* Mutant: the record holds the caller's array itself (providers: providers).
SnapshotProviders_Aliased(recordProviders, callerProviders) == callerProviders

SnapshotProviders(recordProviders, callerProviders) == recordProviders

\* Mutant: the cooldown counts as elapsed at 30000 ms already.
ProviderAvailable_AtCooldown(config, provider, t) ==
    IF config.failureCount = 0 \/ t - config.lastFailureTime >= FAILURE_COOLDOWN_MS
    THEN TRUE
    ELSE config.failureCount < MAX_FAILURES

\* The filter's predicate does not read the provider it is given.
ProviderAvailable(config, provider, t) ==
    IF config.failureCount = 0 \/ t - config.lastFailureTime > FAILURE_COOLDOWN_MS
    THEN TRUE
    ELSE config.failureCount < MAX_FAILURES

GetAvailableProviders(config, t) ==
    SelectSeq(config.providers, LAMBDA provider : ProviderAvailable(config, provider, t))

\* Mutant: reset clears the failure fields of the record instead of deleting it.
ResetFailoverConfig_Zeroed(store, sessionId) ==
    IF ConfigKey(sessionId) \in DOMAIN store
    THEN MapSet(store, ConfigKey(sessionId),
                [store[ConfigKey(sessionId)] EXCEPT !.failureCount = 0, !.lastFailureTime = 0])
    ELSE store

ResetFailoverConfig(store, sessionId) == MapDelete(store, ConfigKey(sessionId))

RetryableStatusCodes == {429, 500, 502, 503, 504, 408, 524}

\* Mutant: every error object counts as retryable.
IsRetryableError_AnyError(error) == error # <<>>

IsRetryableError(error) ==
    IF error = <<>> THEN FALSE
    ELSE LET e == error[1] IN
         IF e.status # 0 /\ e.status \in RetryableStatusCodes THEN TRUE
         ELSE IF e.responseStatus # 0 /\ e.responseStatus \in RetryableStatusCodes THEN TRUE
         ELSE IF e.code = "ECONNABORTED" \/ e.code = "ETIMEDOUT"
                 \/ Includes(e.message, MsgTimeoutLower) THEN TRUE
         ELSE IF e.code = "ENOTFOUND" \/ e.code = "ECONNREFUSED" \/ e.code = "ECONNRESET" THEN TRUE
         ELSE IF Includes(ToLowerCase(e.message), <<"r","a","t","e"," ","l","i","m","i","t">>)
                 \/ Includes(ToLowerCase(e.message),
                      <<"t","o","o"," ","m","a","n","y"," ","r","e","q","u","e","s","t","s">>)
              THEN TRUE
         ELSE FALSE

\* Lines 227-232: the rotation index and its update.
\* Mutant: the first available provider is always the one selected.
NextIndex_First(config, availableProviders) == 0

NextIndex(config, availableProviders) == config.currentIndex % Len(availableProviders)

\* Mutant: the index advances by two.
AdvanceIndex_Skip(config, availableProviders) == (config.currentIndex + 2) % Len(availableProviders)

AdvanceIndex(config, availableProviders) == (config.currentIndex + 1) % Len(availableProviders)

\* Line 201: a single provider is returned without touching the map.
\* Mutant: the single-provider shortcut is missing.
IsSingleProvider_Never(providers) == FALSE

IsSingleProvider(providers) == Len(providers) = 1

\* Line 224: what is returned when no provider is available.
\* Mutant: the first provider of the record is returned.
FallbackProvider_FromRecord(providers, config) == config.providers[1]

FallbackProvider(providers, config) == providers[1]

\* Mutant: the empty list is refused only after a record was created for it.
GetNextProvider_RecordsEmpty(store, providers, sessionId, t) ==
    [store |-> IF ConfigKey(sessionId) \in DOMAIN store THEN store
               ELSE MapSet(store, ConfigKey(sessionId), NewConfig(providers)),
     result |-> IF Len(providers) = 0 THEN "" ELSE providers[1],
     threw |-> Len(providers) = 0,
     availEmpty |-> FALSE]

\* getNextProvider(providers, sessionId) at time t on map store:
\* [store: the map afterwards, result: the string returned ("" when it
\* throws), threw, availEmpty: the available list was empty].
GetNextProvider(store, providers, sessionId, t) ==
    IF Len(providers) = 0
    THEN [store |-> store, result |-> "", threw |-> TRUE, availEmpty |-> FALSE]
    ELSE IF IsSingleProvider(providers)
    THEN [store |-> store, result |-> providers[1], threw |-> FALSE, availEmpty |-> FALSE]
    ELSE LET configKey == ConfigKey(sessionId)
             store1 == IF configKey \in DOMAIN store
                       THEN store
                       ELSE MapSet(store, configKey, NewConfig(providers))
             config == store1[configKey]
             availableProviders == GetAvailableProviders(config, t)
         IN  IF Len(availableProviders) = 0
             THEN \* this.resetFailoverConfig(configKey): the key is passed as a session id
                  [store |-> ResetFailoverConfig(store1, <<configKey>>),
                   result |-> FallbackProvider(providers, config),
                   threw |-> FALSE, availEmpty |-> TRUE]
             ELSE [store |-> MapSet(store1, configKey,
                                [config EXCEPT !.currentIndex = AdvanceIndex(config, availableProviders)]),
                   result |-> availableProviders[NextIndex(config, availableProviders) + 1],
                   threw |-> FALSE, availEmpty |-> FALSE]

\* Lines 256-258.
\* Mutant: a recorded failure also sends the rotation back to the first candidate.
FailureRecorded_ResetsCursor(config, t) ==
    [config EXCEPT !.failureCount = config.failureCount + 1, !.lastFailureTime = t,
                   !.currentIndex = 0]

FailureRecorded(config, t) ==
    [config EXCEPT !.failureCount = config.failureCount + 1, !.lastFailureTime = t]

\* Mutant: a failure on a scope without a record creates one.
RecordFailure_CreatesRecord(store, provider, sessionId, error, t) ==
    IF ~IsRetryableError(error) THEN store
    ELSE MapSet(store, ConfigKey(sessionId),
                FailureRecorded(IF ConfigKey(sessionId) \in DOMAIN store
                                THEN store[ConfigKey(sessionId)]
                                ELSE NewConfig(<<provider>>), t))

RecordFailure(store, provider, sessionId, error, t) ==
    LET configKey == ConfigKey(sessionId) IN
    IF configKey \notin DOMAIN store THEN store
    ELSE IF IsRetryableError(error)
         THEN MapSet(store, configKey, FailureRecorded(store[configKey], t))
         ELSE store

\* Lines 283-285.
\* Mutant: success clears the time of the last failure only.
SuccessRecorded_KeepCount(config) == [config EXCEPT !.lastFailureTime = 0]

SuccessRecorded(config) == [config EXCEPT !.failureCount = 0, !.lastFailureTime = 0]

\* Mutant: a recorded success leaves the record as it was.
RecordSuccess_Ignored(store, provider, sessionId) == store

RecordSuccess(store, provider, sessionId) ==
    LET configKey == ConfigKey(sessionId) IN
    IF configKey \notin DOMAIN store THEN store
    ELSE MapSet(store, configKey, SuccessRecorded(store[configKey]))

(***************************************************************************)
(* router.ts.  A JavaScript value that may be undefined, a string or an    *)
(* array of strings is a record: t its type, s the string (a sequence of   *)
(* characters, where a tag or a provider identifier counts as one          *)
(* character), l the array.                                                *)
(***************************************************************************)
Undefined == [t |-> "undefined", s |-> <<>>, l |-> <<>>]

StringVal(str) == [t |-> "string", s |-> str, l |-> <<>>]

ListVal(list) == [t |-> "list", s |-> <<>>, l |-> list]

\* undefined and "" are falsy; every array, the empty one too, is truthy.
Truthy(v) == v.t = "list" \/ (v.t = "string" /\ v.s # <<>>)

SubagentOpenTag == "<CCR-SUBAGENT-MODEL>"
SubagentCloseTag == "</CCR-SUBAGENT-MODEL>"
EnvTag == "<env>"
HaikuPrefix == <<"claude-3-5-haiku">>
CustomRouterModel == <<"custom">>
RewritePrompt == <<"prompt">>

DEFAULT_LONG_CONTEXT_THRESHOLD == 60000
LAST_USAGE_TOKEN_FLOOR == 20000

\* What getModelFromConfig and getUseModel give back: the map afterwards,
\* the value returned, whether an error was thrown, and get: <<>> or the
\* getNextProvider call made, <<[providers, availEmpty]>>.
Outcome(store, model, threw, get) == [store |-> store, model |-> model, threw |-> threw, get |-> get]

\* return failoverManager.getNextProvider(routerConfig, sessionId), r being
\* what the call gave.
ProviderOutcome(r, providers) ==
    Outcome(r.store, StringVal(<<r.result>>), r.threw,
            <<[providers |-> providers, availEmpty |-> r.availEmpty]>>)

GetModelFromConfig(store, routerConfig, sessionId, t) ==
    IF ~Truthy(routerConfig) THEN Outcome(store, Undefined, TRUE, <<>>)
    ELSE IF routerConfig.t = "string" THEN Outcome(store, routerConfig, FALSE, <<>>)
    ELSE IF Len(routerConfig.l) = 0 THEN Outcome(store, Undefined, TRUE, <<>>)
    ELSE ProviderOutcome(GetNextProvider(store, routerConfig.l, sessionId, t), routerConfig.l)

\* config.Providers.find(p => p.name.toLowerCase() === provider): <<>> or <<p>>.
FindProvider(providers, provider) ==
    LET hits == SelectSeq(providers, LAMBDA p : ToLowerCase(p.name) = provider)
    IN  IF Len(hits) = 0 THEN <<>> ELSE <<hits[1]>>

\* finalProvider?.models?.find(m => m.toLowerCase() === model): <<>> or <<m>>.
FindModel(finalProvider, model) ==
    IF finalProvider = <<>> \/ finalProvider[1].models = <<>> THEN <<>>
    ELSE LET hits == SelectSeq(finalProvider[1].models[1], LAMBDA m : ToLowerCase(m) = model)
         IN  IF Len(hits) = 0 THEN <<>> ELSE <<hits[1]>>

\* The "provider,model" override of getUseModel: the canonical pair when the
\* provider and the model are found, else the requested string as it is.
OverrideModel(requested, providers) ==
    LET parts == Split(requested, ",")
        finalProvider == FindProvider(providers, parts[1])
        finalModel == FindModel(finalProvider, parts[2])
    IN  IF finalProvider # <<>> /\ finalModel # <<>> /\ finalModel[1] # <<>>
        THEN finalProvider[1].name \o <<",">> \o finalModel[1]
        ELSE requested

\* The sub-agent rule of getUseModel applies: system[1].text starts with the
\* opening tag and the pattern with the closing tag matches.
HasSubagentTag(system) ==
    /\ Len(system) > 1
    /\ StartsWith(system[2], <<SubagentOpenTag>>)
    /\ IndexOf(system[2], SubagentCloseTag) # 0

\* model[1] of the match: the text between the opening tag and the first
\* closing tag.
SubagentModel(text) == SubSeq(text, 2, IndexOf(text, SubagentCloseTag) - 1)

\* Mutant: the tag stays in the text.
StripSubagentTag_Unchanged(text) == text

\* text.replace(`<CCR-SUBAGENT-MODEL>${model[1]}</CCR-SUBAGENT-MODEL>`, "")
StripSubagentTag(text) == SubSeq(text, IndexOf(text, SubagentCloseTag) + 1, Len(text))

\* Mutant: the web-search rule is tried before the think rule.
UseModelRule_WebSearchBeforeThink(req, tokenCount, Router, lastUsage) ==
    LET longContextThreshold == IF Router.longContextThreshold # 0
                                THEN Router.longContextThreshold
                                ELSE DEFAULT_LONG_CONTEXT_THRESHOLD
    IN  IF /\ \/ (lastUsage # <<>> /\ lastUsage[1] > longContextThreshold
                                   /\ tokenCount > LAST_USAGE_TOKEN_FLOOR)
              \/ tokenCount > longContextThreshold
           /\ Truthy(Router.longContext)
        THEN "longContext"
        ELSE IF HasSubagentTag(req.system) THEN "subagent"
        ELSE IF StartsWith(req.model[1], HaikuPrefix) /\ Truthy(Router.background)
        THEN "background"
        ELSE IF req.webSearch /\ Truthy(Router.webSearch) THEN "webSearch"
        ELSE IF req.thinking /\ Truthy(Router.think) THEN "think"
        ELSE "default"

\* The rule of getUseModel that decides a request with no override:
\* "longContext", "subagent", "background", "think", "webSearch" or "default".
UseModelRule(req, tokenCount, Router, lastUsage) ==
    LET longContextThreshold == IF Router.longContextThreshold # 0
                                THEN Router.longContextThreshold
                                ELSE DEFAULT_LONG_CONTEXT_THRESHOLD
        lastUsageThreshold == /\ lastUsage # <<>>
                              /\ lastUsage[1] > longContextThreshold
                              /\ tokenCount > LAST_USAGE_TOKEN_FLOOR
        tokenCountThreshold == tokenCount > longContextThreshold
    IN  IF (lastUsageThreshold \/ tokenCountThreshold) /\ Truthy(Router.longContext)
        THEN "longContext"
        ELSE IF HasSubagentTag(req.system) THEN "subagent"
        ELSE IF StartsWith(req.model[1], HaikuPrefix) /\ Truthy(Router.background)
        THEN "background"
        ELSE IF req.thinking /\ Truthy(Router.think) THEN "think"
        ELSE IF req.webSearch /\ Truthy(Router.webSearch) THEN "webSearch"
        ELSE "default"

\* getUseModel(req, tokenCount, config, lastUsage): an Outcome.  (The
\* sub-agent rule also strips the tag from the request, see SystemAfter.)
GetUseModel(store, req, tokenCount, config, lastUsage, sessionId, t) ==
    IF req.model = <<>> THEN Outcome(store, Undefined, TRUE, <<>>)
    ELSE IF Includes(req.model[1], <<",">>)
    THEN Outcome(store, StringVal(OverrideModel(req.model[1], config.Providers)), FALSE, <<>>)
    ELSE IF ~config.Router.present THEN Outcome(store, Undefined, TRUE, <<>>)
    ELSE IF UseModelRule(req, tokenCount, config.Router, lastUsage) = "subagent"
    THEN Outcome(store, StringVal(SubagentModel(req.system[2])), FALSE, <<>>)
    ELSE GetModelFromConfig(store,
                            config.Router[UseModelRule(req, tokenCount, config.Router, lastUsage)],
                            sessionId, t)

\* req.sessionId after the parse of metadata.user_id, which is given as its
\* segments between "_session_" separators (<<>>: no user_id).
ParseSessionId(userId) ==
    IF userId # <<>> /\ Len(userId[1]) > 1 THEN <<userId[1][2]>> ELSE <<>>

\* router() rewrites system[1].text from the REWRITE_SYSTEM_PROMPT file.
Rewrites(req, config) ==
    /\ config.REWRITE_SYSTEM_PROMPT # "none"
    /\ Len(req.system) > 1
    /\ Includes(req.system[2], <<EnvTag>>)

\* `${prompt}<env>${text.split('<env>').pop()}`
RewriteSystemPrompt(text) ==
    RewritePrompt \o <<EnvTag>> \o Split(text, EnvTag)[Len(Split(text, EnvTag))]

\* The request once the file has been read.
Rewritten(req, config) ==
    IF Rewrites(req, config) THEN [req EXCEPT !.system[2] = RewriteSystemPrompt(@)] ELSE req

\* The try block of router(): an Outcome with the branch taken.
RouterTry(store, req, config, sessionId, t) ==
    IF req.tokenCountThrows
    THEN Outcome(store, Undefined, TRUE, <<>>) @@ [path |-> "threw"]
    ELSE IF config.CUSTOM_ROUTER_PATH = "returnsModel"
    THEN Outcome(store, StringVal(CustomRouterModel), FALSE, <<>>) @@ [path |-> "custom"]
    ELSE GetUseModel(store, req, req.tokenCount, config, req.lastUsage, sessionId, t)
         @@ [path |-> "selected"]

\* The catch block of router(), f being what getModelFromConfig gave for
\* the default configuration: if it threw, the last resort is the first
\* element of a non-empty default array, else the default itself.
RouterCatch(f, default) ==
    IF ~f.threw THEN f @@ [path |-> "fallbackDefault"]
    ELSE IF default.t = "list" /\ Len(default.l) > 0
    THEN [f EXCEPT !.model = StringVal(<<default.l[1]>>), !.threw = FALSE]
         @@ [path |-> "lastResortFirst"]
    ELSE [f EXCEPT !.model = default, !.threw = FALSE] @@ [path |-> "lastResortDefault"]

\* router() from its try block on, u being what the try block gave.  Without
\* a Router section the catch block throws in turn, and the request's model
\* stays as it was.
RouterFinish(u, req, config, sessionId, t) ==
    IF ~u.threw THEN u
    ELSE IF ~config.Router.present
    THEN Outcome(u.store, IF req.model = <<>> THEN Undefined ELSE StringVal(req.model[1]), TRUE, <<>>)
         @@ [path |-> "threw"]
    ELSE RouterCatch(GetModelFromConfig(u.store, config.Router.default, sessionId, t),
                     config.Router.default)

\* router(req, _res, context): the map and the request's model afterwards,
\* whether the call rejected, the branch taken and the getNextProvider call
\* made.  The file is read before the try block.
Router(store, req, config, t) ==
    IF Rewrites(req, config) /\ config.REWRITE_SYSTEM_PROMPT = "unreadable"
    THEN Outcome(store, IF req.model = <<>> THEN Undefined ELSE StringVal(req.model[1]), TRUE, <<>>)
         @@ [path |-> "readFailed"]
    ELSE RouterFinish(RouterTry(store, Rewritten(req, config), config, ParseSessionId(req.userId), t),
                      req, config, ParseSessionId(req.userId), t)

\* The request's system segments after getUseModel(): the sub-agent rule
\* strips the tag from system[1].text.
UseModelSystem(req, tokenCount, config, lastUsage) ==
    IF /\ req.model # <<>>
       /\ ~Includes(req.model[1], <<",">>)
       /\ config.Router.present
       /\ UseModelRule(req, tokenCount, config.Router, lastUsage) = "subagent"
    THEN [req.system EXCEPT ![2] = StripSubagentTag(@)]
    ELSE req.system

\* The request's system segments after router().
SystemAfter(req, config) ==
    IF Rewrites(req, config) /\ config.REWRITE_SYSTEM_PROMPT = "unreadable" THEN req.system
    ELSE IF ~req.tokenCountThrows /\ config.CUSTOM_ROUTER_PATH # "returnsModel"
    THEN UseModelSystem(Rewritten(req, config), req.tokenCount, config, req.lastUsage)
    ELSE Rewritten(req, config).system

(***************************************************************************)
(* History of the scope key hist.watched, to state properties of sequences *)
(* of calls (every key is watched in some behaviour):                      *)
(*   calls       number of getNextProvider calls (two or more providers)   *)
(*               made on the key since its record was created, while all   *)
(*               of them passed the record's own list and no failure was   *)
(*               recorded; -1 once that is no longer so or MaxCalls is     *)
(*               passed; 0 when the key has no record                      *)
(*   failedProv  the provider named by every failure recorded since the    *)
(*               record was created or a success was recorded: "none",     *)
(*               the provider, or "mixed"                                  *)
(*   healed      a success was recorded and no failure since               *)
(*   wasReset    resetFailoverConfig deleted a used record of the key and  *)
(*               no getNextProvider call has created one since             *)
(***************************************************************************)
HistKeys == {ConfigKey(s) : s \in SessionIds}

FreshHist(key) ==
    [watched |-> key, calls |-> 0, failedProv |-> "none", healed |-> FALSE, wasReset |-> FALSE]

\* lastCall.path names the branch the call took; key is the scope key of a
\* call that found or made a record ("" otherwise); providers and error are
\* the list passed to getNextProvider and the error passed to recordFailure;
\* model, threw and default are the request's model after router(), whether
\* router() rejected, and the configuration's Router.default; req, config and
\* system are the arguments of a direct getUseModel call (<<req>>, <<config>>)
\* and the request's system segments after it; body is <<b>>, b the keys of
\* the request body other than model, messages, system and tools after a
\* router() call of SpecBody.
Call(op, path, key, result) ==
    [op |-> op, path |-> path, key |-> key, result |-> result, providers |-> <<>>, error |-> <<>>,
     model |-> Undefined, threw |-> FALSE, default |-> Undefined,
     req |-> <<>>, config |-> <<>>, system |-> <<>>, body |-> <<>>]

\* inflight when the calls are made one after the other, by no request in
\* particular.
NoRequests == [pc |-> <<>>, provider |-> <<>>, results |-> <<>>, failing |-> {}]

Init ==
    /\ failoverConfigs = <<>>
    /\ now = StartNow
    /\ lastCall = Call("none", "", "", "")
    /\ hist \in {FreshHist(k) : k \in HistKeys}
    /\ inflight = NoRequests

\* hist after a call that left the map as newStore, when the watched key's
\* entry is dropped because its record is gone.
HistDeleted(newStore, h) ==
    IF hist.watched \in DOMAIN newStore THEN h
    ELSE [FreshHist(hist.watched) EXCEPT !.wasReset = h.wasReset]

\* hist after a getNextProvider call on key that left the map as newStore.
HistAfterGet(newStore, key, providers, availEmpty) ==
    HistDeleted(newStore,
        IF key # hist.watched \/ Len(providers) < 2 THEN hist
        ELSE [hist EXCEPT
                !.calls = IF @ >= 0 /\ @ < MaxCalls /\ ~availEmpty
                             /\ newStore[key].providers = providers
                          THEN @ + 1 ELSE -1,
                !.wasReset = FALSE])

DoGetNextProvider(providers, sessionId) ==
    LET r == GetNextProvider(failoverConfigs, providers, sessionId, now)
        key == ConfigKey(sessionId)
        path == IF r.threw THEN "threw"
                ELSE IF Len(providers) = 1 THEN "single"
                ELSE IF r.availEmpty THEN "exhausted"
                ELSE IF key \notin DOMAIN failoverConfigs
                     THEN (IF hist.watched = key /\ hist.wasReset THEN "createdAfterReset" ELSE "created")
                ELSE "rotated"
    IN  /\ failoverConfigs' = r.store
        /\ lastCall' = [Call("getNextProvider", path,
                            IF path \in {"threw", "single"} THEN "" ELSE key, r.result)
                           EXCEPT !.providers = providers]
        /\ hist' = HistAfterGet(r.store, key, providers, r.availEmpty)
        /\ UNCHANGED <<now, inflight>>

\* recordFailure, taken while the failure count it would raise is below limit.
DoRecordFailureBelow(limit, provider, sessionId, error) ==
    LET key == ConfigKey(sessionId)
        recorded == key \in DOMAIN failoverConfigs /\ IsRetryableError(error)
    IN  /\ recorded => failoverConfigs[key].failureCount < limit
        /\ failoverConfigs' = RecordFailure(failoverConfigs, provider, sessionId, error, now)
        /\ lastCall' = [Call("recordFailure",
                            IF key \notin DOMAIN failoverConfigs THEN "noRecord"
                            ELSE IF recorded THEN "recorded" ELSE "ignored",
                            IF key \in DOMAIN failoverConfigs THEN key ELSE "", "")
                           EXCEPT !.error = error]
        /\ hist' = IF recorded /\ key = hist.watched
                   THEN [hist EXCEPT !.calls = -1, !.healed = FALSE,
                                     !.failedProv = IF @ \in {"none", provider}
                                                    THEN provider ELSE "mixed"]
                   ELSE hist
        /\ UNCHANGED <<now, inflight>>

DoRecordFailure(provider, sessionId, error) ==
    DoRecordFailureBelow(MaxFailureCount, provider, sessionId, error)

DoRecordSuccess(provider, sessionId) ==
    LET key == ConfigKey(sessionId) IN
    /\ failoverConfigs' = RecordSuccess(failoverConfigs, provider, sessionId)
    /\ lastCall' = Call("recordSuccess",
                        IF key \in DOMAIN failoverConfigs THEN "cleared" ELSE "noRecord",
                        IF key \in DOMAIN failoverConfigs THEN key ELSE "", "")
    /\ hist' = IF key \in DOMAIN failoverConfigs /\ key = hist.watched
               THEN [hist EXCEPT !.healed = TRUE, !.failedProv = "none"]
               ELSE hist
    /\ UNCHANGED <<now, inflight>>

DoResetFailoverConfig(sessionId) ==
    LET key == ConfigKey(sessionId)
        used == key \in DOMAIN failoverConfigs
                /\ (failoverConfigs[key].currentIndex > 0 \/ failoverConfigs[key].failureCount > 0)
    IN  /\ failoverConfigs' = ResetFailoverConfig(failoverConfigs, sessionId)
        /\ lastCall' = Call("resetFailoverConfig",
                            IF key \in DOMAIN failoverConfigs THEN "deleted" ELSE "noRecord",
                            IF key \in DOMAIN failoverConfigs THEN key ELSE "", "")
        /\ hist' = IF key = hist.watched
                   THEN [FreshHist(key) EXCEPT !.wasReset = (used \/ hist.wasReset)]
                   ELSE hist
        /\ UNCHANGED <<now, inflight>>

\* Wall-clock time passes between calls.
Tick ==
    /\ now < StartNow + MaxTicks * TickMs
    /\ now' = now + TickMs
    /\ lastCall' = Call("tick", "", "", "")
    /\ UNCHANGED <<failoverConfigs, hist, inflight>>

CallGetNextProvider == \E providers \in ProviderLists, sessionId \in SessionIds :
    DoGetNextProvider(providers, sessionId)

CallRecordFailure == \E provider \in ProviderNames, sessionId \in SessionIds, error \in Errors :
    DoRecordFailure(provider, sessionId, error)

CallRecordSuccess == \E provider \in ProviderNames, sessionId \in SessionIds :
    DoRecordSuccess(provider, sessionId)

CallResetFailoverConfig == \E sessionId \in SessionIds : DoResetFailoverConfig(sessionId)

Next ==
    \/ CallGetNextProvider
    \/ CallRecordFailure
    \/ CallRecordSuccess
    \/ CallResetFailoverConfig
    \/ Tick

Spec == Init /\ [][Next]_vars

(***************************************************************************)
(* SpecLists: one scope (no session id) that is passed different lists.    *)
(***************************************************************************)
InitLists ==
    /\ failoverConfigs = <<>>
    /\ now = StartNow
    /\ lastCall = Call("none", "", "", "")
    /\ hist = FreshHist(ConfigKey(<<>>))
    /\ inflight = NoRequests

ListsGetNextProvider == \E providers \in MixedLists : DoGetNextProvider(providers, <<>>)

ListsRecordFailure == \E provider \in ProviderNames, error \in Errors :
    DoRecordFailure(provider, <<>>, error)

ListsRecordSuccess == \E provider \in ProviderNames : DoRecordSuccess(provider, <<>>)

ListsResetFailoverConfig == DoResetFailoverConfig(<<>>)

NextLists ==
    \/ ListsGetNextProvider
    \/ ListsRecordFailure
    \/ ListsRecordSuccess
    \/ ListsResetFailoverConfig
    \/ Tick

SpecLists == InitLists /\ [][NextLists]_vars

(***************************************************************************)
(* SpecRouter: requests pass through router() while failures are recorded. *)
(***************************************************************************)
BaseRequest ==
    [model |-> << <<"g", "p", "t">> >>, userId |-> <<>>, tokenCount |-> 100,
     tokenCountThrows |-> FALSE, lastUsage |-> <<>>, system |-> <<>>,
     thinking |-> FALSE, webSearch |-> FALSE]

Requests ==
    { BaseRequest,
      [BaseRequest EXCEPT !.userId = << <<"u", "global">> >>],
      [BaseRequest EXCEPT !.userId = << <<"u">> >>],
      [BaseRequest EXCEPT !.model = <<>>],
      [BaseRequest EXCEPT !.model = << <<"o", "r", ",", "m", "1">> >>],
      [BaseRequest EXCEPT !.model = << <<"O", "R", ",", "m", "1">> >>],
      [BaseRequest EXCEPT !.model = << <<"x", ",", "y">> >>],
      [BaseRequest EXCEPT !.model = << HaikuPrefix \o <<"l">> >>],
      [BaseRequest EXCEPT !.tokenCount = 70000],
      [BaseRequest EXCEPT !.tokenCount = 30000, !.lastUsage = <<70000>>],
      [BaseRequest EXCEPT !.tokenCountThrows = TRUE],
      [BaseRequest EXCEPT !.tokenCountThrows = TRUE, !.userId = << <<"u", "global">> >>],
      [BaseRequest EXCEPT !.system = << <<"s">>, <<SubagentOpenTag, "m", "1", SubagentCloseTag, "r">> >>],
      [BaseRequest EXCEPT !.system = << <<"s">>, <<SubagentOpenTag, SubagentCloseTag, "r">> >>],
      [BaseRequest EXCEPT !.system = << <<"s">>, <<SubagentOpenTag, "m", "1">> >>],
      [BaseRequest EXCEPT !.system = << <<"s">>, <<"r", EnvTag, "e">> >>],
      [BaseRequest EXCEPT !.thinking = TRUE],
      [BaseRequest EXCEPT !.webSearch = TRUE] }

BaseRouter ==
    [present |-> TRUE, default |-> ListVal(<<"a", "b">>), longContext |-> Undefined,
     background |-> Undefined, think |-> Undefined, webSearch |-> Undefined,
     longContextThreshold |-> 0]

BaseConfig ==
    [Providers |-> << [name |-> <<"O", "r">>, models |-> << << <<"M", "1">> >> >>],
                      [name |-> <<"x">>, models |-> <<>>] >>,
     Router |-> BaseRouter, CUSTOM_ROUTER_PATH |-> "none", REWRITE_SYSTEM_PROMPT |-> "none"]

Configs ==
    { BaseConfig,
      [BaseConfig EXCEPT !.Router.default = StringVal(<<"d">>)],
      [BaseConfig EXCEPT !.Router.default = Undefined],
      [BaseConfig EXCEPT !.Router.default = StringVal(<<>>)],
      [BaseConfig EXCEPT !.Router.default = ListVal(<<>>)],
      [BaseConfig EXCEPT !.Router.present = FALSE, !.Router.default = Undefined],
      [BaseConfig EXCEPT !.Router.longContext = StringVal(<<"l">>)],
      [BaseConfig EXCEPT !.Router.longContext = ListVal(<<>>)],
      [BaseConfig EXCEPT !.Router.longContext = StringVal(<<"l">>),
                         !.Router.longContextThreshold = 80000],
      [BaseConfig EXCEPT !.Router.background = ListVal(<<"a", "b">>)],
      [BaseConfig EXCEPT !.Router.think = StringVal(<<"t">>)],
      [BaseConfig EXCEPT !.Router.webSearch = StringVal(<<"w">>)],
      [BaseConfig EXCEPT !.CUSTOM_ROUTER_PATH = "returnsModel"],
      [BaseConfig EXCEPT !.CUSTOM_ROUTER_PATH = "throws"],
      [BaseConfig EXCEPT !.CUSTOM_ROUTER_PATH = "returnsNothing"],
      [BaseConfig EXCEPT !.REWRITE_SYSTEM_PROMPT = "readable"],
      [BaseConfig EXCEPT !.REWRITE_SYSTEM_PROMPT = "unreadable",
                         !.Router.default = StringVal(<<"d">>)] }

\* The step of a router() call that gave r.
RouterStep(r, key, default) ==
    /\ failoverConfigs' = r.store
    /\ lastCall' = [Call("router", r.path, IF r.get = <<>> THEN "" ELSE key, "")
                       EXCEPT !.providers = IF r.get = <<>> THEN <<>> ELSE r.get[1].providers,
                              !.model = r.model,
                              !.threw = r.threw,
                              !.default = default]
    /\ hist' = IF r.get = <<>> THEN hist
               ELSE HistAfterGet(r.store, key, r.get[1].providers, r.get[1].availEmpty)
    /\ UNCHANGED <<now, inflight>>

DoRouter(req, config) ==
    RouterStep(Router(failoverConfigs, req, config, now),
               ConfigKey(ParseSessionId(req.userId)), config.Router.default)

\* The requests and configurations that meet in a rule of getUseModel or in
\* the catch block of router().
LongRequests == {req \in Requests : req.tokenCount > 100}
LongConfigs == {config \in Configs : config.Router.longContext # Undefined}
FailingRequests == {req \in Requests : req.tokenCountThrows \/ req.model = <<>>}
DefaultConfigs == {config \in Configs : config.Router.default # BaseRouter.default}
EnvRequests == {req \in Requests : Len(req.system) > 1 /\ Includes(req.system[2], <<EnvTag>>)}
RewriteConfigs == {config \in Configs : config.REWRITE_SYSTEM_PROMPT # "none"}
HeuristicRequests ==
    {req \in Requests : req.thinking \/ req.webSearch \/ (req.model # <<>> /\ StartsWith(req.model[1], HaikuPrefix))}
HeuristicConfigs ==
    {config \in Configs : \E v \in {config.Router.background, config.Router.think, config.Router.webSearch} :
                              v # Undefined}

Routings ==
    ({BaseRequest} \X Configs) \cup (Requests \X {BaseConfig})
        \cup (LongRequests \X LongConfigs) \cup (FailingRequests \X DefaultConfigs)
        \cup (EnvRequests \X RewriteConfigs) \cup (HeuristicRequests \X HeuristicConfigs)

CallRouter == \E routing \in Routings : DoRouter(routing[1], routing[2])

RouterRecordFailure == \E error \in Errors : DoRecordFailure("a", <<>>, error)

NextRouter ==
    \/ CallRouter
    \/ RouterRecordFailure
    \/ Tick

SpecRouter == InitLists /\ [][NextRouter]_vars

(***************************************************************************)
(* SpecUseModel: getUseModel() applied to requests and configurations in   *)
(* which several rules match at once.  The requests carry no session id.   *)
(***************************************************************************)
FullRequest ==
    [BaseRequest EXCEPT !.model = << HaikuPrefix \o <<"l">> >>,
                        !.tokenCount = 70000,
                        !.system = << <<"s">>, <<SubagentOpenTag, "m", "1", SubagentCloseTag, "r">> >>,
                        !.thinking = TRUE,
                        !.webSearch = TRUE]

ChainRequests ==
    { FullRequest,
      [FullRequest EXCEPT !.model = << <<"o", "r", ",", "m", "1">> >>],
      [FullRequest EXCEPT !.tokenCount = 60001],
      [FullRequest EXCEPT !.tokenCount = 60000],
      [FullRequest EXCEPT !.tokenCount = 20001, !.lastUsage = <<60001>>],
      [FullRequest EXCEPT !.tokenCount = 20000, !.lastUsage = <<70000>>],
      [FullRequest EXCEPT !.tokenCount = 20001, !.lastUsage = <<60000>>],
      [FullRequest EXCEPT !.tokenCount = 100],
      [FullRequest EXCEPT !.tokenCount = 100, !.system = <<>>],
      [FullRequest EXCEPT !.tokenCount = 100, !.system = <<>>, !.model = << <<"g", "p", "t">> >>],
      [FullRequest EXCEPT !.tokenCount = 100, !.system = <<>>, !.model = << <<"g", "p", "t">> >>,
                          !.thinking = FALSE] }

FullConfig ==
    [BaseConfig EXCEPT !.Router.default = StringVal(<<"d">>),
                       !.Router.longContext = StringVal(<<"l">>),
                       !.Router.background = ListVal(<<"a", "b">>),
                       !.Router.think = StringVal(<<"t">>),
                       !.Router.webSearch = StringVal(<<"w">>)]

ChainConfigs ==
    { FullConfig,
      [FullConfig EXCEPT !.Router.longContextThreshold = 80000],
      [FullConfig EXCEPT !.Router.longContext = Undefined],
      [FullConfig EXCEPT !.Router.longContext = Undefined, !.Router.background = Undefined],
      [FullConfig EXCEPT !.Router.longContext = Undefined, !.Router.background = Undefined,
                         !.Router.think = Undefined] }

UseModelRequests == {req \in Requests : req.userId = <<>> /\ ~req.tokenCountThrows}

UseModelConfigs ==
    {config \in Configs : config.CUSTOM_ROUTER_PATH = "none" /\ config.REWRITE_SYSTEM_PROMPT = "none"}

UseModelCalls ==
    (ChainRequests \X ChainConfigs)
        \cup (UseModelRequests \X {BaseConfig, FullConfig}) \cup ({BaseRequest} \X UseModelConfigs)
        \cup ((LongRequests \cap UseModelRequests) \X (LongConfigs \cap UseModelConfigs))
        \cup ((HeuristicRequests \cap UseModelRequests) \X (HeuristicConfigs \cap UseModelConfigs))

InitUseModel ==
    /\ failoverConfigs = <<>>
    /\ now = StartNow
    /\ lastCall = Call("none", "", "", "")
    /\ hist = FreshHist(ConfigKey(<<"global">>))
    /\ inflight = NoRequests

\* The step of a getUseModel() call that gave u and left the request's
\* system segments as system.
UseModelStep(u, key, req, config, system) ==
    /\ failoverConfigs' = u.store
    /\ lastCall' = [Call("getUseModel", IF u.threw THEN "threw" ELSE "returned",
                        IF u.get = <<>> THEN "" ELSE key, "")
                       EXCEPT !.providers = IF u.get = <<>> THEN <<>> ELSE u.get[1].providers,
                              !.model = u.model,
                              !.threw = u.threw,
                              !.req = <<req>>,
                              !.config = <<config>>,
                              !.system = system]
    /\ hist' = IF u.get = <<>> THEN hist
               ELSE HistAfterGet(u.store, key, u.get[1].providers, u.get[1].availEmpty)
    /\ UNCHANGED <<now, inflight>>

DoGetUseModel(req, config) ==
    UseModelStep(GetUseModel(failoverConfigs, req, req.tokenCount, config, req.lastUsage,
                             ParseSessionId(req.userId), now),
                 ConfigKey(ParseSessionId(req.userId)), req, config,
                 UseModelSystem(req, req.tokenCount, config, req.lastUsage))

CallGetUseModel == \E call \in UseModelCalls : DoGetUseModel(call[1], call[2])

NextUseModel ==
    \/ CallGetUseModel
    \/ Tick

SpecUseModel == InitUseModel /\ [][NextUseModel]_vars

(***************************************************************************)
(* SpecBody: router() on requests whose body has further keys, with        *)
(* providers that declare bodyDelete and bodySet.  A body is a function    *)
(* from its keys to their values.                                          *)
(***************************************************************************)
BaseBody == [k \in {"temperature", "reasoning", "otherParam"} |-> "v"]

BodyRequests ==
    { BaseRequest @@ [body |-> BaseBody],
      [BaseRequest EXCEPT !.model = << <<"o", "r", ",", "m", "1">> >>] @@ [body |-> BaseBody],
      [BaseRequest EXCEPT !.model = << <<"o", "r", ",", "m", "1">> >>]
          @@ [body |-> [k \in {"temperature"} |-> "v"]],
      [BaseRequest EXCEPT !.model = << <<"x", ",", "y">> >>] @@ [body |-> BaseBody],
      [BaseRequest EXCEPT !.model = << <<"u", ",", "y">> >>] @@ [body |-> BaseBody] }

BodyProviders ==
    << [name |-> <<"O", "r">>, models |-> << << <<"M", "1">> >> >>,
        bodyDelete |-> << <<"reasoning", "temperature">> >>,
        bodySet |-> << [k \in {"reasoning_effort"} |-> "high"] >>],
       [name |-> <<"x">>, models |-> << << <<"y">> >> >>, bodyDelete |-> <<>>, bodySet |-> <<>>] >>

BodyConfigs ==
    { [BaseConfig EXCEPT !.Providers = BodyProviders],
      [BaseConfig EXCEPT !.Providers = BodyProviders,
                         !.Router.default = StringVal(<<"O", "r", ",", "M", "1">>)] }

\* The keys of the request body other than model after router(): the
\* function assigns req.body.model (and system[1].text) and nothing else.
RouterBody(req, config) == req.body

\* The step of a router() call that gave r and left the body's other keys
\* as body.
RouterBodyStep(r, key, req, config, body) ==
    /\ failoverConfigs' = r.store
    /\ lastCall' = [Call("router", r.path, IF r.get = <<>> THEN "" ELSE key, "")
                       EXCEPT !.providers = IF r.get = <<>> THEN <<>> ELSE r.get[1].providers,
                              !.model = r.model,
                              !.threw = r.threw,
                              !.default = config.Router.default,
                              !.req = <<req>>,
                              !.config = <<config>>,
                              !.body = <<body>>]
    /\ hist' = IF r.get = <<>> THEN hist
               ELSE HistAfterGet(r.store, key, r.get[1].providers, r.get[1].availEmpty)
    /\ UNCHANGED <<now, inflight>>

DoRouterBody(req, config) ==
    RouterBodyStep(Router(failoverConfigs, req, config, now),
                   ConfigKey(ParseSessionId(req.userId)), req, config, RouterBody(req, config))

CallRouterBody == \E req \in BodyRequests, config \in BodyConfigs : DoRouterBody(req, config)

NextBody ==
    \/ CallRouterBody
    \/ RouterRecordFailure
    \/ Tick

SpecBody == InitLists /\ [][NextBody]_vars

(***************************************************************************)
(* SpecErrors: one scope on which failures with every kind of error are    *)
(* recorded.                                                               *)
(***************************************************************************)
MsgTooManyRequests == <<"T","o","o"," ","M","a","n","y"," ","R","e","q","u","e","s","t","s">>

ErrorCodes == {"ECONNABORTED", "ETIMEDOUT", "ENOTFOUND", "ECONNREFUSED", "ECONNRESET", "EPIPE"}

ErrorMessages ==
    {MsgTimeoutLower, MsgTimeoutUpper, MsgRateLimit, MsgTooManyRequests, MsgNotFound,
     <<"a"," ">> \o MsgTimeoutLower \o <<" ","b">>}

AllErrors ==
    Errors
        \cup {<<Err(status, 0, "", <<>>)>> : status \in RetryableStatusCodes \cup {400, 404, 501}}
        \cup {<<Err(0, status, "", <<>>)>> : status \in RetryableStatusCodes \cup {400, 404, 501}}
        \cup {<<Err(0, 0, code, <<>>)>> : code \in ErrorCodes}
        \cup {<<Err(0, 0, "", message)>> : message \in ErrorMessages}
        \cup {<<Err(404, 0, "EPIPE", MsgRateLimit)>>, <<Err(0, 0, "", <<>>)>>}

ErrorsGetNextProvider == DoGetNextProvider(<<"a", "b">>, <<>>)

ErrorsRecordFailure == \E error \in AllErrors : DoRecordFailure("a", <<>>, error)

ErrorsRecordSuccess == DoRecordSuccess("a", <<>>)

NextErrors ==
    \/ ErrorsGetNextProvider
    \/ ErrorsRecordFailure
    \/ ErrorsRecordSuccess
    \/ Tick

SpecErrors == InitLists /\ [][NextErrors]_vars

(***************************************************************************)
(* SpecCooldown: one scope whose failures go on after the maximum, with    *)
(* the clock stepping by exactly the cooldown or by more than it.          *)
(***************************************************************************)
CooldownGetNextProvider == DoGetNextProvider(<<"a", "b">>, <<>>)

CooldownRecordFailure == \E error \in Errors : DoRecordFailureBelow(MaxStreak, "a", <<>>, error)

CooldownRecordSuccess == DoRecordSuccess("a", <<>>)

CooldownTick == \E ms \in {FAILURE_COOLDOWN_MS, TickMs} :
    /\ now < StartNow + MaxTicks * FAILURE_COOLDOWN_MS
    /\ now' = now + ms
    /\ lastCall' = Call("tick", "", "", "")
    /\ UNCHANGED <<failoverConfigs, hist, inflight>>

NextCooldown ==
    \/ CooldownGetNextProvider
    \/ CooldownRecordFailure
    \/ CooldownRecordSuccess
    \/ CooldownTick

SpecCooldown == InitLists /\ [][NextCooldown]_vars

(***************************************************************************)
(* SpecSnapshot: one scope that is passed different lists, whose caller    *)
(* writes to the array it passed to the last getNextProvider call.         *)
(***************************************************************************)
\* What the caller's array reads after a shift() or a push('a').
InputMutations(providers) ==
    IF providers = <<>> THEN {<<"a">>} ELSE {Tail(providers), Append(providers, "a")}

\* The caller writes to the array it passed to the last call; the write
\* reaches the record only if the record holds that very array, which can be
\* the case only for the call that created the record.
DoMutateInput(mutated) ==
    /\ lastCall.op = "getNextProvider"
    /\ lastCall.key \in DOMAIN failoverConfigs
    /\ failoverConfigs' =
          IF lastCall.path \in {"created", "createdAfterReset"}
          THEN MapSet(failoverConfigs, lastCall.key,
                      [failoverConfigs[lastCall.key] EXCEPT
                          !.providers = SnapshotProviders(@, mutated)])
          ELSE failoverConfigs
    /\ lastCall' = [Call("mutateInput", lastCall.path, lastCall.key, "")
                       EXCEPT !.providers = mutated]
    /\ UNCHANGED <<now, hist, inflight>>

SnapshotGetNextProvider == \E providers \in MixedLists : DoGetNextProvider(providers, <<>>)

SnapshotRecordFailure == \E provider \in ProviderNames, error \in Errors :
    DoRecordFailure(provider, <<>>, error)

SnapshotRecordSuccess == \E provider \in ProviderNames : DoRecordSuccess(provider, <<>>)

SnapshotResetFailoverConfig == DoResetFailoverConfig(<<>>)

SnapshotMutateInput == \E mutated \in InputMutations(lastCall.providers) : DoMutateInput(mutated)

NextSnapshot ==
    \/ SnapshotGetNextProvider
    \/ SnapshotRecordFailure
    \/ SnapshotRecordSuccess
    \/ SnapshotResetFailoverConfig
    \/ SnapshotMutateInput
    \/ Tick

SpecSnapshot == InitLists /\ [][NextSnapshot]_vars

(***************************************************************************)
(* SpecConcurrent: MaxRequests requests are in flight on one scope.  Each  *)
(* calls getNextProvider and, later, recordFailure or recordSuccess for    *)
(* the provider it was given; a call is one step and the steps of the      *)
(* requests interleave freely.  inflight.results is the sequence of values *)
(* returned by the getNextProvider calls since the last one that found no  *)
(* provider available.                                                     *)
(***************************************************************************)
ConcurrentProviders == <<"a", "b", "c">>

RequestIds == 1..MaxRequests

InitConcurrent ==
    /\ failoverConfigs = <<>>
    /\ now = StartNow
    /\ lastCall = Call("none", "", "", "")
    /\ hist = FreshHist(ConfigKey(<<>>))
    /\ inflight = [pc |-> [r \in RequestIds |-> "start"],
                   provider |-> [r \in RequestIds |-> ""],
                   results |-> <<>>, failing |-> {}]

RequestSelects(r) ==
    LET g == GetNextProvider(failoverConfigs, ConcurrentProviders, <<>>, now) IN
    /\ inflight.pc[r] = "start"
    /\ failoverConfigs' = g.store
    /\ lastCall' = [Call("getNextProvider", IF g.availEmpty THEN "exhausted" ELSE "rotated",
                         ConfigKey(<<>>), g.result)
                       EXCEPT !.providers = ConcurrentProviders]
    /\ inflight' = [inflight EXCEPT !.pc[r] = "selected", !.provider[r] = g.result,
                                    !.results = IF g.availEmpty THEN <<>> ELSE Append(@, g.result)]
    /\ UNCHANGED <<now, hist>>

RequestFails(r, error) ==
    /\ inflight.pc[r] = "selected"
    /\ failoverConfigs' = RecordFailure(failoverConfigs, inflight.provider[r], <<>>, error, now)
    /\ lastCall' = [Call("recordFailure",
                         IF IsRetryableError(error) THEN "recorded" ELSE "ignored",
                         ConfigKey(<<>>), "")
                       EXCEPT !.error = error]
    /\ inflight' = [inflight EXCEPT !.pc[r] = "done"]
    /\ UNCHANGED <<now, hist>>

RequestSucceeds(r) ==
    /\ inflight.pc[r] = "selected"
    /\ failoverConfigs' = RecordSuccess(failoverConfigs, inflight.provider[r], <<>>)
    /\ lastCall' = Call("recordSuccess", "cleared", ConfigKey(<<>>), "")
    /\ inflight' = [inflight EXCEPT !.pc[r] = "done"]
    /\ UNCHANGED <<now, hist>>

ConcurrentSelect == \E r \in RequestIds : RequestSelects(r)

ConcurrentFail == \E r \in RequestIds, error \in Errors : RequestFails(r, error)

ConcurrentSucceed == \E r \in RequestIds : RequestSucceeds(r)

NextConcurrent ==
    \/ ConcurrentSelect
    \/ ConcurrentFail
    \/ ConcurrentSucceed
    \/ Tick

SpecConcurrent == InitConcurrent /\ [][NextConcurrent]_vars

(***************************************************************************)
(* SpecSequential: requests are processed one after the other on one scope *)
(* with two candidates: getNextProvider, then the outcome is recorded,     *)
(* then the next request.  The requests sent to the provider in            *)
(* inflight.failing always fail with a retryable error, the others always  *)
(* succeed.  inflight.results holds the last two values selected.          *)
(* Requests keep coming: neither step is postponed forever.                *)
(***************************************************************************)
SequentialProviders == <<"a", "b">>

RetryableErrors == {error \in AllErrors : IsRetryableError(error)}

\* The last two of the values selected so far.
LastTwo(results) == IF Len(results) <= 2 THEN results ELSE Tail(results)

InitSequential ==
    /\ failoverConfigs = <<>>
    /\ now = StartNow
    /\ lastCall = Call("none", "", "", "")
    /\ hist = FreshHist(ConfigKey(<<>>))
    /\ inflight \in {[pc |-> <<"start">>, provider |-> <<"">>, results |-> <<>>,
                       failing |-> {provider}] : provider \in {"a", "b"}}

SequentialSelect ==
    LET g == GetNextProvider(failoverConfigs, SequentialProviders, <<>>, now) IN
    /\ inflight.pc[1] = "start"
    /\ failoverConfigs' = g.store
    /\ lastCall' = [Call("getNextProvider", IF g.availEmpty THEN "exhausted" ELSE "rotated",
                         ConfigKey(<<>>), g.result)
                       EXCEPT !.providers = SequentialProviders]
    /\ inflight' = [inflight EXCEPT !.pc[1] = "selected", !.provider[1] = g.result,
                                    !.results = LastTwo(Append(@, g.result))]
    /\ UNCHANGED <<now, hist>>

SequentialFailure ==
    /\ inflight.pc[1] = "selected"
    /\ inflight.provider[1] \in inflight.failing
    /\ \E error \in RetryableErrors :
          /\ failoverConfigs' = RecordFailure(failoverConfigs, inflight.provider[1], <<>>, error, now)
          /\ lastCall' = [Call("recordFailure", "recorded", ConfigKey(<<>>), "")
                             EXCEPT !.error = error]
    /\ inflight' = [inflight EXCEPT !.pc[1] = "start"]
    /\ UNCHANGED <<now, hist>>

SequentialSuccess ==
    /\ inflight.pc[1] = "selected"
    /\ inflight.provider[1] \notin inflight.failing
    /\ failoverConfigs' = RecordSuccess(failoverConfigs, inflight.provider[1], <<>>)
    /\ lastCall' = Call("recordSuccess", "cleared", ConfigKey(<<>>), "")
    /\ inflight' = [inflight EXCEPT !.pc[1] = "start"]
    /\ UNCHANGED <<now, hist>>

NextSequential ==
    \/ SequentialSelect
    \/ SequentialFailure
    \/ SequentialSuccess
    \/ Tick

SpecSequential ==
    /\ InitSequential /\ [][NextSequential]_vars
    /\ WF_vars(SequentialSelect)
    /\ WF_vars(SequentialFailure)
    /\ WF_vars(SequentialSuccess)

(***************************************************************************)
(* Properties.                                                             *)
(***************************************************************************)
\* The record of key k as an optional value.
RecordOf(store, k) == IF k \in DOMAIN store THEN <<store[k]>> ELSE <<>>

AllLists == ProviderLists \cup MixedLists

\* The retryable-error predicate as the specification words it: the message
\* is compared without regard to case for all three phrases.
SpecRetryable(error) ==
    /\ error # <<>>
    /\ \/ error[1].status \in RetryableStatusCodes
       \/ error[1].responseStatus \in RetryableStatusCodes
       \/ error[1].code \in {"ECONNABORTED", "ETIMEDOUT", "ENOTFOUND", "ECONNREFUSED", "ECONNRESET"}
       \/ Includes(ToLowerCase(error[1].message), MsgTimeoutLower)
       \/ Includes(ToLowerCase(error[1].message), ToLowerCase(MsgRateLimit))
       \/ Includes(ToLowerCase(error[1].message),
                   <<"t","o","o"," ","m","a","n","y"," ","r","e","q","u","e","s","t","s">>)

\* The scope's failure streak is at the maximum and the cooldown has not elapsed.
Exhausted(store, key, t) ==
    /\ key \in DOMAIN store
    /\ store[key].failureCount >= MAX_FAILURES
    /\ t - store[key].lastFailureTime <= FAILURE_COOLDOWN_MS

\* C1: on a scope with no recorded failures, the k-th of the sequential
\* getNextProvider calls that pass the list the fresh record was created
\* from returns candidates[(k-1) mod n] (counting from 0): the candidates
\* in list order, cyclically.
C1_RoundRobin ==
    (lastCall.op = "getNextProvider" /\ lastCall.key = hist.watched /\ hist.calls >= 1)
        => LET candidates == failoverConfigs[hist.watched].providers
           IN  lastCall.result = candidates[((hist.calls - 1) % Len(candidates)) + 1]

\* The fourth call on [a, b, c] has returned a again.
C1_Witness ==
    /\ lastCall.op = "getNextProvider" /\ lastCall.key = hist.watched
    /\ hist.calls = 4 /\ lastCall.result = "a"
    /\ failoverConfigs[hist.watched].providers = <<"a", "b", "c">>

\* C2 (as claimed): after a getNextProvider call that found the available
\* subset empty, the store holds no record for the scope it was called for.
C2_ExhaustedDeletesOwnRecord ==
    (lastCall.op = "getNextProvider" /\ lastCall.path = "exhausted")
        => lastCall.key \notin DOMAIN failoverConfigs

\* C3 (as claimed): a call addressed to one scope leaves the record of every
\* other scope key as it was.
C3_ScopesIsolated ==
    [][\A sessionId \in SessionIds :
          ( \/ \E providers \in AllLists : DoGetNextProvider(providers, sessionId)
            \/ \E provider \in ProviderNames, error \in Errors :
                  DoRecordFailure(provider, sessionId, error)
            \/ \E provider \in ProviderNames : DoRecordSuccess(provider, sessionId)
            \/ DoResetFailoverConfig(sessionId) )
          => \A k \in HistKeys \ {ConfigKey(sessionId)} :
                RecordOf(failoverConfigs', k) = RecordOf(failoverConfigs, k)]_vars

\* C4 (as claimed): a provider named by MAX_FAILURES or more consecutive
\* recorded failures of a scope is not returned by getNextProvider on that
\* scope while the cooldown has not elapsed and no success was recorded.
\* Stated for calls that have a choice (two or more candidates).
C4_FailedProviderNotReturned ==
    [][( /\ lastCall'.op = "getNextProvider"
         /\ Len(lastCall'.providers) >= 2
         /\ lastCall'.key = hist.watched
         /\ hist.failedProv \in ProviderNames
         /\ Exhausted(failoverConfigs, hist.watched, now) )
          => lastCall'.result # hist.failedProv]_vars

\* C5: a getNextProvider call (two or more candidates) on a scope whose
\* failure streak is at the maximum with the cooldown not elapsed does not
\* throw and returns the first element of the list passed to that call.
C5_ExhaustedReturnsFirstPassed ==
    [][( /\ lastCall'.op = "getNextProvider"
         /\ Len(lastCall'.providers) >= 2
         /\ Exhausted(failoverConfigs, lastCall'.key, now) )
          => /\ lastCall'.path = "exhausted"
             /\ lastCall'.result = lastCall'.providers[1]]_vars

\* The record was created from [a, b, c]; the exhausted call passed [c, b].
C5_Witness ==
    /\ lastCall.op = "getNextProvider" /\ lastCall.path = "exhausted"
    /\ lastCall.providers = <<"c", "b">> /\ lastCall.result = "c"
    /\ failoverConfigs[lastCall.key].providers = <<"a", "b", "c">>

\* C6: getNextProvider with a list of exactly one element returns that
\* element and leaves the whole map unchanged, in every state.
C6_SingleCandidateNoState ==
    [][(lastCall'.op = "getNextProvider" /\ Len(lastCall'.providers) = 1)
          => /\ failoverConfigs' = failoverConfigs
             /\ lastCall'.path = "single"
             /\ lastCall'.result = lastCall'.providers[1]]_vars

\* A single-candidate call answered while both scopes hold records, one of
\* them with failures.
C6_Witness ==
    /\ lastCall.op = "getNextProvider" /\ lastCall.path = "single" /\ lastCall.result = "a"
    /\ DOMAIN failoverConfigs = HistKeys
    /\ \E k \in DOMAIN failoverConfigs : failoverConfigs[k].failureCount > 0

\* C7: recordFailure with an error that is not retryable (as the
\* specification classifies errors), or with no error, changes no record's
\* failureCount or lastFailureTime and creates or deletes no record.
C7_NonRetryableIgnored ==
    [][(lastCall'.op = "recordFailure" /\ ~SpecRetryable(lastCall'.error))
          => /\ DOMAIN failoverConfigs' = DOMAIN failoverConfigs
             /\ \A k \in DOMAIN failoverConfigs :
                   /\ failoverConfigs'[k].failureCount = failoverConfigs[k].failureCount
                   /\ failoverConfigs'[k].lastFailureTime = failoverConfigs[k].lastFailureTime]_vars

\* A non-retryable failure was reported for a scope whose record already
\* counts failures.
C7_Witness ==
    /\ lastCall.op = "recordFailure" /\ lastCall.path = "ignored"
    /\ failoverConfigs[lastCall.key].failureCount = 2
    /\ failoverConfigs[lastCall.key].lastFailureTime > 0

\* C8: recordSuccess on a scope that has a record leaves failureCount 0 and
\* lastFailureTime 0; from then until a failure is recorded, every
\* getNextProvider call on the scope finds all candidates available and
\* returns the candidate at the record's index, advancing it by one modulo
\* the number of candidates.
C8_SuccessRestoresRotation ==
    [][/\ (lastCall'.op = "recordSuccess" /\ lastCall'.key \in DOMAIN failoverConfigs)
          => /\ lastCall'.key \in DOMAIN failoverConfigs'
             /\ failoverConfigs'[lastCall'.key].failureCount = 0
             /\ failoverConfigs'[lastCall'.key].lastFailureTime = 0
       /\ ( /\ lastCall'.op = "getNextProvider"
            /\ Len(lastCall'.providers) >= 2
            /\ lastCall'.key = hist.watched /\ hist.healed )
          => LET config == failoverConfigs[hist.watched]
                 n == Len(config.providers)
             IN  /\ GetAvailableProviders(config, now) = config.providers
                 /\ lastCall'.result = config.providers[(config.currentIndex % n) + 1]
                 /\ failoverConfigs'[hist.watched] =
                       [config EXCEPT !.currentIndex = (config.currentIndex + 1) % n]]_vars

\* A call rotated on a scope that had failures recorded and then a success.
C8_Witness ==
    /\ lastCall.op = "getNextProvider" /\ lastCall.path = "rotated"
    /\ lastCall.key = hist.watched /\ hist.healed /\ hist.calls = -1
    /\ lastCall.result = "b"

\* C9: after resetFailoverConfig on a scope the store holds no record for
\* it, and the next getNextProvider call on that scope with two or more
\* candidates creates a fresh record from the list passed and returns the
\* list's first candidate.
C9_ResetStartsFresh ==
    [][/\ lastCall'.op = "resetFailoverConfig"
          => \A sessionId \in SessionIds :
                DoResetFailoverConfig(sessionId)
                   => ConfigKey(sessionId) \notin DOMAIN failoverConfigs'
       /\ ( /\ lastCall'.op = "getNextProvider"
            /\ Len(lastCall'.providers) >= 2
            /\ lastCall'.key = hist.watched /\ hist.wasReset )
          => /\ hist.watched \notin DOMAIN failoverConfigs
             /\ lastCall'.result = lastCall'.providers[1]
             /\ failoverConfigs'[hist.watched] =
                   [providers |-> lastCall'.providers, currentIndex |-> 1,
                    lastFailureTime |-> 0, failureCount |-> 0]]_vars

\* A record with an advanced index or failures was reset and the next call
\* on the scope returned the first candidate.
C9_Witness ==
    /\ lastCall.op = "getNextProvider" /\ lastCall.path = "createdAfterReset"
    /\ lastCall.result = "a"


\* Router.default is a non-empty string or a non-empty array.
ValidDefault(default) ==
    (default.t = "string" /\ default.s # <<>>) \/ (default.t = "list" /\ Len(default.l) > 0)

\* C10: router() completes without raising an error and leaves the request's
\* model set to a model value (a non-empty string).  Stated here for the
\* configurations that have the required default only; it fails for them
\* already.
C10_AlwaysSomeModel ==
    (lastCall.op = "router" /\ ValidDefault(lastCall.default))
        => /\ ~lastCall.threw
           /\ lastCall.model.t = "string"
           /\ lastCall.model.s # <<>>

\* The ordered chain of selection rules as the specification numbers them,
\* for a request with a model and a configuration with a Router section:
\* the first rule whose condition holds.
ChainRule(req, config) ==
    LET rules == config.Router
        threshold == IF rules.longContextThreshold # 0 THEN rules.longContextThreshold
                     ELSE DEFAULT_LONG_CONTEXT_THRESHOLD
        matches ==
            [override    |-> Includes(req.model[1], <<",">>),
             longContext |-> /\ Truthy(rules.longContext)
                             /\ \/ req.tokenCount > threshold
                                \/ /\ req.lastUsage # <<>>
                                   /\ req.lastUsage[1] > threshold
                                   /\ req.tokenCount > LAST_USAGE_TOKEN_FLOOR,
             subagent    |-> /\ Len(req.system) >= 2
                             /\ Len(req.system[2]) >= 2
                             /\ req.system[2][1] = SubagentOpenTag
                             /\ \E i \in 2..Len(req.system[2]) : req.system[2][i] = SubagentCloseTag,
             background  |-> StartsWith(req.model[1], HaikuPrefix) /\ Truthy(rules.background),
             think       |-> req.thinking /\ Truthy(rules.think),
             webSearch   |-> req.webSearch /\ Truthy(rules.webSearch),
             default     |-> TRUE]
        order == <<"override", "longContext", "subagent", "background", "think", "webSearch", "default">>
    IN  order[CHOOSE i \in 1..Len(order) : matches[order[i]] /\ \A j \in 1..(i - 1) : ~matches[order[j]]]

\* The strings the override rule may return: the requested one or a
\* configured provider's name and model joined by the separator.
OverrideResults(req, config) ==
    {StringVal(req.model[1])}
        \cup {StringVal(config.Providers[i].name \o <<",">> \o config.Providers[i].models[1][j]) :
                <<i, j>> \in {ij \in (1..Len(config.Providers)) \X (1..2) :
                                /\ config.Providers[ij[1]].models # <<>>
                                /\ ij[2] <= Len(config.Providers[ij[1]].models[1])}}

\* C11: getUseModel returns the result of the first rule of the chain
\* (override, long context, sub-agent, background, think, web search,
\* default) that matches and applies no later one: the model, the error and
\* the change of the failover map are those of resolving that rule's
\* configuration alone, and the system text changes for the sub-agent rule
\* only.
C11_FirstMatchWins ==
    [][(/\ lastCall'.op = "getUseModel"
        /\ lastCall'.req[1].model # <<>>
        /\ lastCall'.config[1].Router.present)
          => LET req == lastCall'.req[1]
                 config == lastCall'.config[1]
                 rule == ChainRule(req, config)
             IN  IF rule = "override"
                 THEN /\ ~lastCall'.threw
                      /\ lastCall'.model \in OverrideResults(req, config)
                      /\ failoverConfigs' = failoverConfigs
                      /\ lastCall'.system = req.system
                 ELSE IF rule = "subagent"
                 THEN /\ ~lastCall'.threw
                      /\ lastCall'.model.t = "string"
                      /\ <<SubagentOpenTag>> \o lastCall'.model.s \o <<SubagentCloseTag>>
                            = SubSeq(req.system[2], 1, Len(lastCall'.model.s) + 2)
                      /\ failoverConfigs' = failoverConfigs
                 ELSE LET resolved == GetModelFromConfig(failoverConfigs, config.Router[rule],
                                                         ParseSessionId(req.userId), now)
                      IN  /\ lastCall'.threw = resolved.threw
                          /\ lastCall'.model = resolved.model
                          /\ failoverConfigs' = resolved.store
                          /\ lastCall'.system = req.system]_vars

\* Think and web search both match and the think configuration was returned.
C11_Witness ==
    /\ lastCall.op = "getUseModel"
    /\ lastCall.req # <<>>
    /\ lastCall.req[1].thinking /\ lastCall.req[1].webSearch
    /\ lastCall.config # <<>>
    /\ lastCall.config[1].Router.think = StringVal(<<"t">>)
    /\ lastCall.config[1].Router.webSearch = StringVal(<<"w">>)
    /\ lastCall.model = StringVal(<<"t">>)

\* The configured (provider, model) pairs that a requested "provider,model"
\* string names when both parts are compared without regard to case.
OverrideMatches(requested, providers) ==
    LET parts == Split(requested, ",")
    IN  {ij \in (1..Len(providers)) \X (1..2) :
           /\ providers[ij[1]].models # <<>>
           /\ ij[2] <= Len(providers[ij[1]].models[1])
           /\ ToLowerCase(providers[ij[1]].name) = ToLowerCase(parts[1])
           /\ ToLowerCase(providers[ij[1]].models[1][ij[2]]) = ToLowerCase(parts[2])}

\* C12: for a requested model holding the separator, getUseModel does not
\* raise; when the provider and the model match configured ones, compared
\* without regard to case, it returns the pair as the configuration spells
\* it, and otherwise the requested string unchanged.
C12_OverrideCaseInsensitive ==
    (/\ lastCall.op = "getUseModel"
     /\ lastCall.req[1].model # <<>>
     /\ Includes(lastCall.req[1].model[1], <<",">>))
        => LET requested == lastCall.req[1].model[1]
               providers == lastCall.config[1].Providers
               matches == OverrideMatches(requested, providers)
           IN  /\ ~lastCall.threw
               /\ IF matches = {}
                  THEN lastCall.model = StringVal(requested)
                  ELSE \E ij \in matches :
                         lastCall.model = StringVal(providers[ij[1]].name \o <<",">>
                                                      \o providers[ij[1]].models[1][ij[2]])

\* The provider descriptor that a selected "provider,model" string names:
\* <<>> or <<p>>.
SelectedProvider(model, providers) ==
    IF model.t # "string" \/ ~Includes(model.s, <<",">>) THEN <<>>
    ELSE LET hits == SelectSeq(providers, LAMBDA p : p.name = Split(model.s, ",")[1])
         IN  IF Len(hits) = 0 THEN <<>> ELSE <<hits[1]>>

\* body without the keys of the provider's bodyDelete and with the entries
\* of its bodySet assigned.
BodyFor(body, provider) ==
    LET deleted == IF provider = <<>> \/ provider[1].bodyDelete = <<>> THEN {}
                   ELSE {provider[1].bodyDelete[1][i] : i \in 1..Len(provider[1].bodyDelete[1])}
        set == IF provider = <<>> \/ provider[1].bodySet = <<>> THEN <<>>
               ELSE provider[1].bodySet[1]
    IN  [k \in (DOMAIN body \ deleted) \cup DOMAIN set |->
            IF k \in DOMAIN set THEN set[k] ELSE body[k]]

\* C13: after router() the body is the incoming body with the selected
\* provider's bodyDelete keys removed and its bodySet entries assigned, and
\* every other key unchanged; with an unknown provider, or one that declares
\* neither, no key other than the model changes.
C13_BodyRewritten ==
    (lastCall.op = "router" /\ lastCall.body # <<>> /\ ~lastCall.threw)
        => lastCall.body[1]
             = BodyFor(lastCall.req[1].body,
                       SelectedProvider(lastCall.model, lastCall.config[1].Providers))

\* C14: isRetryableError is true exactly for a retryable status (direct or
\* under response), a connection error code, or a message that contains
\* 'timeout', 'rate limit' or 'too many requests' compared without regard
\* to case; a failure is recorded on a scope with a record exactly for
\* those errors.
C14_RetryableExactly ==
    (lastCall.op = "recordFailure" /\ lastCall.path \in {"recorded", "ignored"})
        => (lastCall.path = "recorded" <=> SpecRetryable(lastCall.error))

\* C15: recordFailure and recordSuccess on a scope that has no record leave
\* the whole map unchanged, whatever the provider and the error: no record
\* is created and no other scope's record changes.
C15_NoRecordNoOp ==
    [][(lastCall'.op \in {"recordFailure", "recordSuccess"} /\ lastCall'.path = "noRecord")
          => failoverConfigs' = failoverConfigs]_vars

\* A retryable failure was reported for a scope without a record while the
\* other scope has one, and the scope still has none.
C15_Witness ==
    /\ lastCall.op = "recordFailure" /\ lastCall.path = "noRecord"
    /\ IsRetryableError(lastCall.error)
    /\ Cardinality(DOMAIN failoverConfigs) = 1

\* C16: getNextProvider with an empty list throws and leaves the map
\* unchanged, in every state; and every record of the map has a non-empty
\* providers list.
C16_EmptyListRefused ==
    [][/\ (lastCall'.op = "getNextProvider" /\ lastCall'.providers = <<>>)
            => (lastCall'.path = "threw" /\ failoverConfigs' = failoverConfigs)
       /\ \A k \in DOMAIN failoverConfigs' : Len(failoverConfigs'[k].providers) > 0]_vars

\* The empty list was refused while both scopes have records.
C16_Witness ==
    /\ lastCall.op = "getNextProvider" /\ lastCall.path = "threw"
    /\ lastCall.providers = <<>>
    /\ DOMAIN failoverConfigs = HistKeys

\* text is the opening tag, a name of n characters without the closing tag,
\* the closing tag and a rest.
TagEndsAfter(text, n) ==
    /\ Len(text) >= n + 2
    /\ text[1] = SubagentOpenTag
    /\ text[n + 2] = SubagentCloseTag
    /\ \A i \in 2..(n + 1) : text[i] # SubagentCloseTag

\* C17: when neither the override nor the long-context rule applies and
\* the second system segment begins with the opening tag, a model name and
\* the closing tag, getUseModel returns exactly the enclosed name, removes
\* the tag and the name from that segment's text and leaves the rest of the
\* text, the other segments and the failover map as they were.
C17_SubagentModel ==
    [][(/\ lastCall'.op = "getUseModel"
        /\ lastCall'.req[1].model # <<>>
        /\ lastCall'.config[1].Router.present
        /\ ChainRule(lastCall'.req[1], lastCall'.config[1]) = "subagent")
          => LET system == lastCall'.req[1].system
             IN  \E n \in 0..Len(system[2]) :
                   /\ TagEndsAfter(system[2], n)
                   /\ ~lastCall'.threw
                   /\ lastCall'.model = StringVal(SubSeq(system[2], 2, n + 1))
                   /\ lastCall'.system
                        = [system EXCEPT ![2] = SubSeq(system[2], n + 3, Len(system[2]))]
                   /\ failoverConfigs' = failoverConfigs]_vars

\* The name "m1" was returned and only the rest of the text is left, while
\* the failover map holds a record.
C17_Witness ==
    /\ lastCall.op = "getUseModel"
    /\ lastCall.model = StringVal(<<"m", "1">>)
    /\ lastCall.system = << <<"s">>, <<"r">> >>
    /\ DOMAIN failoverConfigs # {}

\* C18: in every reachable state, for every record, no candidate is
\* available when the failure count is at least 3 and at most 30000 ms have
\* passed since the last failure, and every candidate is available
\* otherwise; so a record with failure count 0 has all candidates available.
C18_AvailabilityByRecord ==
    \A k \in DOMAIN failoverConfigs :
        LET config == failoverConfigs[k]
            unavailable == /\ config.failureCount >= MAX_FAILURES
                           /\ now - config.lastFailureTime <= FAILURE_COOLDOWN_MS
        IN  /\ GetAvailableProviders(config, now)
                 = IF unavailable THEN <<>> ELSE config.providers
            /\ config.failureCount = 0 => GetAvailableProviders(config, now) = config.providers

\* Three failures were recorded and exactly 30000 ms have passed since the
\* last one: the scope is still unavailable.
C18_Witness ==
    /\ "global" \in DOMAIN failoverConfigs
    /\ failoverConfigs["global"].failureCount = MAX_FAILURES
    /\ now - failoverConfigs["global"].lastFailureTime = FAILURE_COOLDOWN_MS
    /\ GetAvailableProviders(failoverConfigs["global"], now) = <<>>

\* C19: once more than 30000 ms have passed since the last failure of a
\* scope that had reached the maximum, one further retryable failure does
\* not make the scope unavailable again (three further ones are needed,
\* since expired failures no longer count).
C19_FailuresAgeOut ==
    [][(/\ lastCall'.op = "recordFailure" /\ lastCall'.path = "recorded"
        /\ failoverConfigs[lastCall'.key].failureCount >= MAX_FAILURES
        /\ now - failoverConfigs[lastCall'.key].lastFailureTime > FAILURE_COOLDOWN_MS)
          => GetAvailableProviders(failoverConfigs'[lastCall'.key], now') # <<>>]_vars

\* C20: recordFailure with a retryable error on a scope that has a record
\* raises that record's failure count by exactly 1 and sets its last
\* failure time to the current time; the record's index and providers, the
\* set of keys and every other record stay as they were.
C20_FailureRecorded ==
    [][(/\ lastCall'.op = "recordFailure"
        /\ lastCall'.path \in {"recorded", "ignored"}
        /\ SpecRetryable(lastCall'.error))
          => LET k == lastCall'.key
             IN  /\ DOMAIN failoverConfigs' = DOMAIN failoverConfigs
                 /\ failoverConfigs'[k].failureCount = failoverConfigs[k].failureCount + 1
                 /\ failoverConfigs'[k].lastFailureTime = now
                 /\ failoverConfigs'[k].currentIndex = failoverConfigs[k].currentIndex
                 /\ failoverConfigs'[k].providers = failoverConfigs[k].providers
                 /\ \A other \in DOMAIN failoverConfigs \ {k} :
                        failoverConfigs'[other] = failoverConfigs[other]]_vars

\* C21: the candidates of a record are fixed at its creation: as long as the
\* record stays in the map, no step (a getNextProvider call with the same or
\* another list, recordFailure, recordSuccess, a write by the caller to the
\* array it passed) changes the record's providers.
C21_CandidatesFixed ==
    [][\A k \in DOMAIN failoverConfigs \cap DOMAIN failoverConfigs' :
          failoverConfigs'[k].providers = failoverConfigs[k].providers]_vars

\* The caller shifted the array [a, b, c] it created the record with; the
\* record still holds [a, b, c].
C21_Witness ==
    /\ lastCall.op = "mutateInput" /\ lastCall.path = "created"
    /\ lastCall.providers = <<"b", "c">>
    /\ failoverConfigs[lastCall.key].providers = <<"a", "b", "c">>

\* The record a getNextProvider call on key with the list providers works on:
\* the one in the map, or the one it creates.
RecordUsed(store, key, providers) ==
    IF key \in DOMAIN store THEN store[key] ELSE NewConfig(providers)

CursorInRange ==
    \A k \in DOMAIN failoverConfigs :
        /\ 0 <= failoverConfigs[k].currentIndex
        /\ failoverConfigs[k].currentIndex < Len(failoverConfigs[k].providers)

\* C22: a getNextProvider call (two or more candidates) that finds the
\* available subset non-empty returns availableSubset[cursor mod n] and sets
\* the cursor to (cursor + 1) mod n, n the length of the available subset;
\* and in every reachable state every record's cursor is at least 0 and less
\* than the length of the record's candidates.
C22_CursorRotation ==
    /\ []CursorInRange
    /\ [][LET key == ConfigKey(<<>>)
              config == RecordUsed(failoverConfigs, key, lastCall'.providers)
              availableSubset == GetAvailableProviders(config, now)
              n == Len(availableSubset)
          IN  ( /\ lastCall'.op = "getNextProvider"
                /\ Len(lastCall'.providers) >= 2
                /\ n > 0 )
                => /\ lastCall'.result = availableSubset[(config.currentIndex % n) + 1]
                   /\ key \in DOMAIN failoverConfigs'
                   /\ failoverConfigs'[key].currentIndex = (config.currentIndex + 1) % n]_vars

\* The third call on [a, b, c], made while two failures are on record,
\* returned c and wrapped the cursor to 0.
C22_Witness ==
    /\ lastCall.op = "getNextProvider" /\ lastCall.path = "rotated"
    /\ lastCall.result = "c"
    /\ failoverConfigs[lastCall.key].providers = <<"a", "b", "c">>
    /\ failoverConfigs[lastCall.key].currentIndex = 0
    /\ failoverConfigs[lastCall.key].failureCount = 2

\* C23 (as claimed): every value a getNextProvider call returns is an
\* element of the list passed to that call, also when successive calls on
\* one scope pass different lists.
C23_ResultFromPassedList ==
    (lastCall.op = "getNextProvider" /\ lastCall.path # "threw")
        => \E i \in 1..Len(lastCall.providers) : lastCall.result = lastCall.providers[i]

\* The candidate after p in list, cyclically.
Successor(list, p) == list[((CHOOSE i \in 1..Len(list) : list[i] = p) % Len(list)) + 1]

ResultsInOrder ==
    \A i \in 1..(Len(inflight.results) - 1) :
        inflight.results[i + 1] = Successor(ConcurrentProviders, inflight.results[i])

\* C24: with every manager call one atomic step and the calls of concurrent
\* requests on one scope interleaved in any way, the successive results of
\* getNextProvider calls that found a provider available follow the
\* candidate order cyclically, none skipped or repeated; recordFailure and
\* recordSuccess leave the cursor as it was, and getNextProvider leaves the
\* failure count and the time of the last failure as they were.
C24_InterleavedRotation ==
    /\ []ResultsInOrder
    /\ [][LET key == ConfigKey(<<>>) IN
          (key \in DOMAIN failoverConfigs /\ key \in DOMAIN failoverConfigs')
            => /\ lastCall'.op \in {"recordFailure", "recordSuccess"}
                    => failoverConfigs'[key].currentIndex = failoverConfigs[key].currentIndex
               /\ lastCall'.op = "getNextProvider"
                    => /\ failoverConfigs'[key].failureCount = failoverConfigs[key].failureCount
                       /\ failoverConfigs'[key].lastFailureTime
                            = failoverConfigs[key].lastFailureTime]_vars

\* Four requests were given a, b, c, a; two of them have recorded a
\* failure, the other two are still in flight.
C24_Witness ==
    /\ inflight.results = <<"a", "b", "c", "a">>
    /\ failoverConfigs[ConfigKey(<<>>)].failureCount = 2
    /\ Cardinality({r \in DOMAIN inflight.pc : inflight.pc[r] = "selected"}) = 2

\* The failure count of every record is below the maximum, every record has
\* a provider available, and the last two selections differ.
SequentialHealthy ==
    /\ \A k \in DOMAIN failoverConfigs :
          /\ failoverConfigs[k].failureCount < MAX_FAILURES
          /\ GetAvailableProviders(failoverConfigs[k], now) # <<>>
    /\ lastCall.path # "exhausted"
    /\ Len(inflight.results) = 2 => inflight.results[1] # inflight.results[2]

FailingSelected ==
    /\ lastCall.op = "getNextProvider"
    /\ lastCall.result \in inflight.failing

\* C25: with requests processed one after the other on one scope with two
\* candidates, one always failing with a retryable error and the other
\* always succeeding, the failure count never reaches 3, the scope always
\* has a provider available, the selections alternate, and the
\* always-failing candidate is selected again and again, forever.
C25_FailingKeepsBeingSelected ==
    /\ []SequentialHealthy
    /\ []<>FailingSelected

\* The always-failing a is selected again, after b's success cleared the
\* failure recorded for it and after the clock moved.
C25_Witness ==
    /\ inflight.failing = {"a"}
    /\ inflight.results = <<"b", "a">>
    /\ FailingSelected
    /\ failoverConfigs[ConfigKey(<<>>)].failureCount = 0
    /\ now > StartNow

====
